---- MODULE Spec2Model ----
(***************************************************************************)
(* EuiComboBox (src/src/components/combo_box/combo_box.js): the            *)
(* interaction core of the combo box as a state machine.  One action per   *)
(* event handler or scheduled callback; an action covers the whole handler *)
(* including the React update (componentWillUpdate, render,                *)
(* componentDidUpdate) that its setState calls or new props trigger.       *)
(*                                                                         *)
(* Text is a sequence of one-character strings, so that toLowerCase and    *)
(* indexOf are computed and not assumed.  Indices into this.options are    *)
(* 0-based as in the source; TLA+ sequences are 1-based, hence the "+ 1".  *)
(***************************************************************************)
EXTENDS Integers, Sequences, FiniteSets, TLC

VARIABLES
    options,            \* props.options: the catalog (options and groups)
    selectedOptions,    \* props.selectedOptions
    hasOnCreateOption,  \* whether props.onCreateOption is supplied
    searchValue,        \* state.searchValue
    isListOpen,         \* state.isListOpen
    matchingOptions,    \* this.matchingOptions (cache)
    optionToGroupMap,   \* this.optionToGroupMap (cache)
    activeOptionIndex,  \* this.activeOptionIndex (Undefined or 0-based index)
    optionRefs,         \* this.options: the registered option nodes
    mounted,            \* this.comboBox is a node (FALSE: comboBoxRef(null) ran)
    activeElement,      \* document.activeElement
    pendingBlurChecks,  \* requestAnimationFrame callbacks scheduled by onComboBoxBlur
    ev,                 \* the event handled by the last step
    before,             \* the props, state, fields and focus before the last step
    trip,               \* an option added by one step and removed by the next
    calls,              \* the props callbacks invoked by the last step, in order
    threw,              \* the call on which the last step raised a TypeError, if any
    acted,              \* the option the last step added or removed, if any
    tabbed              \* the tabbable list and the focus target of the last step's tabAway

vars == <<options, selectedOptions, hasOnCreateOption, searchValue, isListOpen,
          matchingOptions, optionToGroupMap, activeOptionIndex, optionRefs,
          mounted, activeElement, pendingBlurChecks, ev, before, trip, calls, threw,
          acted, tabbed>>

----------------------------------------------------------------------------
(* Bounds of the model *)

\* longest selection the caller lets the selection grow to
MaxSelected == 2

\* most requestAnimationFrame callbacks outstanding at once
MaxPending == 2

----------------------------------------------------------------------------
(* Values *)

\* this.activeOptionIndex = undefined (no index is negative)
Undefined == -1

NoGroup == <<"-">>

\* String.prototype.toLowerCase on one character of the model's alphabet
LowerChar(c) ==
    CASE c = "A" -> "a"
      [] c = "B" -> "b"
      [] OTHER -> c

toLowerCase(s) == [i \in 1..Len(s) |-> LowerChar(s[i])]

\* hay.indexOf(needle) !== -1
Contains(hay, needle) ==
    \E i \in 0..(Len(hay) - Len(needle)) : SubSeq(hay, i + 1, i + Len(needle)) = needle

o1 == [id |-> "o1", label |-> <<"A", "b">>, value |-> <<"A", "b">>]
o2 == [id |-> "o2", label |-> <<"B", "b">>, value |-> <<"b">>]
o3 == [id |-> "o3", label |-> <<"a">>, value |-> <<"a">>]

\* a group is { label, options }; an ungrouped option stands alone
CatalogGrouped == << [label |-> <<"g">>, options |-> <<o1, o2>>], o3 >>
CatalogSmall == << o3 >>

Catalogs == {CatalogGrouped, CatalogSmall}

\* the texts the user types into the search field
SearchTexts == { <<>>, <<"b">>, <<"A", "B">>, <<"b", "b">> }

\* the selections a caller mounts the combo box with
CallerSelections == { <<>>, <<o1, o3>>, <<o3, o3>> }

NoError == "none"

NoOption == [id |-> "-", label |-> <<>>, value |-> <<>>]

NoTrip == [stage |-> "none", selection |-> <<>>, option |-> NoOption]

\* the option a caller creates for a custom value
CustomOption(text) == [id |-> "custom", label |-> text, value |-> text]

IsGroup(entry) == "options" \in DOMAIN entry

\* DOM nodes: the search input, the node rendering an option (React keeps the
\* node of an option that stays rendered), and anything outside the widget
SearchInput == [kind |-> "search", id |-> "-"]
Outside == [kind |-> "outside", id |-> "-"]
Other == [kind |-> "outside", id |-> "other"]
NoNode == [kind |-> "none", id |-> "-"]

\* tabbable(document): the tabbable elements of the page in document order; the
\* option nodes carry tabindex="-1" and are not among them
TabbableLists ==
    { <<SearchInput>>, <<SearchInput, Outside>>, <<Outside, SearchInput>>,
      <<Outside, SearchInput, Other>> }

NoTab == [items |-> <<>>, target |-> NoNode]
OptionNode(option) == [kind |-> "option", id |-> option.id]

\* Array.prototype.indexOf, 0-based, -1 when absent
IndexOf(seq, x) ==
    IF \E i \in 1..Len(seq) : seq[i] = x
    THEN (CHOOSE i \in 1..Len(seq) : seq[i] = x /\ \A j \in 1..(i - 1) : seq[j] # x) - 1
    ELSE -1

\* Array.prototype.filter(option => option !== removed)
RECURSIVE FilterOut(_, _)
FilterOut(seq, removed) ==
    IF seq = <<>> THEN <<>>
    ELSE (IF Head(seq) # removed THEN <<Head(seq)>> ELSE <<>>) \o FilterOut(Tail(seq), removed)

\* the element of a one-element set
Only(S) == CHOOSE x \in S : TRUE

----------------------------------------------------------------------------
(* matching_options.js (not among the sources: modelled from the spec, 4.1) *)

RECURSIVE flattenOptionGroups(_)
flattenOptionGroups(optionsOrGroups) ==
    IF optionsOrGroups = <<>> THEN <<>>
    ELSE LET head == Head(optionsOrGroups)
         IN (IF IsGroup(head) THEN head.options ELSE <<head>>)
            \o flattenOptionGroups(Tail(optionsOrGroups))

\* the group label recorded for each leaf option, in the same walk
RECURSIVE flattenGroupLabels(_)
flattenGroupLabels(optionsOrGroups) ==
    IF optionsOrGroups = <<>> THEN <<>>
    ELSE LET head == Head(optionsOrGroups)
         IN (IF IsGroup(head) THEN [i \in 1..Len(head.options) |-> head.label]
             ELSE <<NoGroup>>)
            \o flattenGroupLabels(Tail(optionsOrGroups))

IsSelected(option, selected) == \E i \in 1..Len(selected) : selected[i] = option

IsMatch(option, selected, text) ==
    /\ ~IsSelected(option, selected)
    /\ Contains(toLowerCase(option.label), toLowerCase(text))

RECURSIVE KeepIndices(_, _, _, _)
KeepIndices(flat, selected, text, i) ==
    IF i > Len(flat) THEN <<>>
    ELSE (IF IsMatch(flat[i], selected, text) THEN <<i>> ELSE <<>>)
         \o KeepIndices(flat, selected, text, i + 1)

getMatchingOptions(catalog, selected, text) ==
    Only({ [matchingOptions |-> [k \in 1..Len(keep) |-> flat[keep[k]]],
            optionToGroupMap |-> {<<flat[keep[k]], groups[keep[k]]>> : k \in 1..Len(keep)}] :
             <<flat, groups, keep>> \in
                 { <<f, flattenGroupLabels(catalog), KeepIndices(f, selected, text, 1)>> :
                     f \in {flattenOptionGroups(catalog)} } })

\* the selected option whose label is the search text, case folded
getSelectedOptionForSearchValue(text, selected) ==
    \E i \in 1..Len(selected) : toLowerCase(selected[i].label) = toLowerCase(text)

----------------------------------------------------------------------------
(* The instance during one handler: the variables as a record.  setState is  *)
(* applied to the record at once and marks it dirty; no handler reads        *)
(* this.state after it has set it, so batching is not observable.            *)

Cur ==
    [options |-> options, selectedOptions |-> selectedOptions,
     hasOnCreateOption |-> hasOnCreateOption,
     searchValue |-> searchValue, isListOpen |-> isListOpen,
     matchingOptions |-> matchingOptions, optionToGroupMap |-> optionToGroupMap,
     activeOptionIndex |-> activeOptionIndex, optionRefs |-> optionRefs,
     mounted |-> mounted, activeElement |-> activeElement,
     pendingBlurChecks |-> pendingBlurChecks,
     calls |-> <<>>, threw |-> NoError, dirty |-> FALSE, tabbed |-> NoTab]

\* this.comboBox.contains(node)
ComboBoxContains(s, node) ==
    /\ s.mounted
    /\ \/ node = SearchInput
       \/ \E i \in 1..Len(s.optionRefs) : s.optionRefs[i] = node

Notify(s, fn, args) == [s EXCEPT !.calls = Append(@, [fn |-> fn, args |-> args])]

openList(s) == [s EXCEPT !.isListOpen = TRUE, !.dirty = TRUE]

hasActiveOption(s) == s.activeOptionIndex # Undefined

clearActiveOption(s) == [s EXCEPT !.activeOptionIndex = Undefined]

onComboBoxBlur(s) == [s EXCEPT !.pendingBlurChecks = @ + 1]

onComboBoxFocus(s, target) ==
    IF target = SearchInput THEN s
    ELSE LET optionIndex == IndexOf(s.optionRefs, target)
         IN IF optionIndex # -1 THEN [s EXCEPT !.activeOptionIndex = optionIndex] ELSE s

\* node.focus(), or the user moving focus to node: the blur of the element that
\* had focus and the focus of node both bubble to the combo box's handlers
\* when they happen inside it; the search input's own onFocus is openList.
Focus(s, node) ==
    IF s.activeElement = node THEN s
    ELSE LET blurred == IF ComboBoxContains(s, s.activeElement) THEN onComboBoxBlur(s) ELSE s
             moved == [blurred EXCEPT !.activeElement = node]
             opened == IF node = SearchInput THEN openList(moved) ELSE moved
         IN IF ComboBoxContains(opened, node) THEN onComboBoxFocus(opened, node) ELSE opened

focusActiveOption(s) ==
    IF hasActiveOption(s)
    THEN IF s.activeOptionIndex >= 0 /\ s.activeOptionIndex < Len(s.optionRefs)
         THEN Focus(s, s.optionRefs[s.activeOptionIndex + 1])
         ELSE [s EXCEPT !.threw = "options[i].focus"]   \* undefined.focus()
    ELSE s

\* the neighbour is taken without wrapping at either end of the list
tabAway_NoWrap(s, amount, tabbableItems) ==
    LET index == IndexOf(tabbableItems, SearchInput) + amount
    IN IF index >= 0 /\ index < Len(tabbableItems)
       THEN Focus([s EXCEPT !.tabbed = [items |-> tabbableItems,
                                        target |-> tabbableItems[index + 1]]],
                  tabbableItems[index + 1])
       ELSE [s EXCEPT !.tabbed = [items |-> tabbableItems, target |-> NoNode],
                      !.threw = "tabbableItems[i].focus"]

tabAway(s, amount, tabbableItems) ==
    LET comboBoxIndex == IndexOf(tabbableItems, SearchInput)
        last == Len(tabbableItems) - 1
        index == IF amount < 0 /\ comboBoxIndex = 0 THEN last
                 ELSE IF amount > 0 /\ comboBoxIndex = last THEN 0
                 ELSE comboBoxIndex + amount
    IN IF index >= 0 /\ index < Len(tabbableItems)
       THEN Focus([s EXCEPT !.tabbed = [items |-> tabbableItems,
                                        target |-> tabbableItems[index + 1]]],
                  tabbableItems[index + 1])
       ELSE [s EXCEPT !.tabbed = [items |-> tabbableItems, target |-> NoNode],
                      !.threw = "tabbableItems[i].focus"]   \* undefined.focus()

\* navigation always starts at the first option, whatever the direction
incrementActiveOptionIndex_EntersFirst(s, amount) ==
    IF Len(s.matchingOptions) = 0 THEN clearActiveOption(s)
    ELSE LET stepped == s.activeOptionIndex + amount
             nextActiveOptionIndex ==
                 IF ~hasActiveOption(s) THEN 0
                 ELSE IF stepped < 0 THEN Len(s.optionRefs) - 1
                 ELSE IF stepped = Len(s.optionRefs) THEN 0
                 ELSE stepped
         IN focusActiveOption([s EXCEPT !.activeOptionIndex = nextActiveOptionIndex])

\* the index stops at either end of the list and does not wrap
incrementActiveOptionIndex_Clamps(s, amount) ==
    IF Len(s.matchingOptions) = 0 THEN clearActiveOption(s)
    ELSE LET stepped == s.activeOptionIndex + amount
             nextActiveOptionIndex ==
                 IF ~hasActiveOption(s)
                 THEN (IF amount < 0 THEN Len(s.optionRefs) - 1 ELSE 0)
                 ELSE IF stepped < 0 THEN 0
                 ELSE IF stepped = Len(s.optionRefs) THEN Len(s.optionRefs) - 1
                 ELSE stepped
         IN focusActiveOption([s EXCEPT !.activeOptionIndex = nextActiveOptionIndex])

incrementActiveOptionIndex(s, amount) ==
    IF Len(s.matchingOptions) = 0 THEN clearActiveOption(s)
    ELSE LET stepped == s.activeOptionIndex + amount
             nextActiveOptionIndex ==
                 IF ~hasActiveOption(s)
                 THEN (IF amount < 0 THEN Len(s.optionRefs) - 1 ELSE 0)
                 ELSE IF stepped < 0 THEN Len(s.optionRefs) - 1
                 ELSE IF stepped = Len(s.optionRefs) THEN 0
                 ELSE stepped
         IN focusActiveOption([s EXCEPT !.activeOptionIndex = nextActiveOptionIndex])

doesSearchMatchOnlyOption(s) ==
    /\ Len(s.matchingOptions) = 1
    /\ toLowerCase(s.matchingOptions[1].value) = toLowerCase(s.searchValue)

areAllOptionsSelected(s) ==
    Len(flattenOptionGroups(s.options)) = Len(s.selectedOptions)

\* props.onChange(next): the caller owns the selection and either passes the
\* requested selection back as props in the same batch (apply) or does not
onChange(s, next, apply) ==
    LET told == Notify(s, "onChange", <<next>>)
    IN IF apply THEN [told EXCEPT !.selectedOptions = next, !.dirty = TRUE] ELSE told

\* props.onCreateOption(searchValue, flattenedOptions): the caller either
\* selects an option it creates for the text (apply) or does nothing
onCreateOption(s, text, flattened, apply) ==
    LET told == Notify(s, "onCreateOption", <<text, flattened>>)
    IN IF apply
       THEN [told EXCEPT !.selectedOptions = Append(@, CustomOption(text)), !.dirty = TRUE]
       ELSE told

\* the active option is not cleared
onAddOption_KeepsActive(s, addedOption, apply) ==
    LET changed == onChange(s, Append(s.selectedOptions, addedOption), apply)
        reset == [changed EXCEPT !.searchValue = <<>>, !.dirty = TRUE]
    IN Focus(reset, SearchInput)

onAddOption(s, addedOption, apply) ==
    LET changed == onChange(s, Append(s.selectedOptions, addedOption), apply)
        cleared == clearActiveOption(changed)
        reset == [cleared EXCEPT !.searchValue = <<>>, !.dirty = TRUE]
    IN Focus(reset, SearchInput)

\* the filter predicate inverted
onRemoveOption_KeepsRemoved(s, removedOption, apply) ==
    LET kept == {i \in 1..Len(s.selectedOptions) : s.selectedOptions[i] = removedOption}
    IN onChange(s, [i \in 1..Cardinality(kept) |-> removedOption], apply)

\* only the first occurrence of the removed option is dropped
onRemoveOption_DropsFirst(s, removedOption, apply) ==
    LET k == IndexOf(s.selectedOptions, removedOption) + 1
    IN onChange(s, IF k = 0 THEN s.selectedOptions
                   ELSE SubSeq(s.selectedOptions, 1, k - 1)
                        \o SubSeq(s.selectedOptions, k + 1, Len(s.selectedOptions)),
                apply)

onRemoveOption(s, removedOption, apply) ==
    onChange(s, FilterOut(s.selectedOptions, removedOption), apply)

onOptionClick(s, option, apply) == onAddOption(s, option, apply)

\* node.click() on the node registered at index: the option list (not among the
\* sources) renders matchingOptions in order and passes its option to onOptionClick
ClickOptionRef(s, index, apply) ==
    IF index < Len(s.optionRefs) /\ index < Len(s.matchingOptions)
    THEN onOptionClick(s, s.matchingOptions[index + 1], apply)
    ELSE [s EXCEPT !.threw = "options[0].click"]   \* undefined.click()

\* the pill is deleted whatever the search text holds
onKeyDownBackspace_IgnoresSearch(s, apply) ==
    IF Len(s.selectedOptions) # 0
    THEN onRemoveOption(s, s.selectedOptions[Len(s.selectedOptions)], apply)
    ELSE s

onKeyDownBackspace(s, apply) ==
    IF Len(s.selectedOptions) # 0 /\ Len(s.searchValue) = 0
    THEN onRemoveOption(s, s.selectedOptions[Len(s.selectedOptions)], apply)
    ELSE s

onKeyDownEscape(s) ==
    IF hasActiveOption(s) THEN Focus(clearActiveOption(s), SearchInput) ELSE s

\* the custom option is created but the search text is kept
onKeyDownEnter_KeepsSearch(s, apply) ==
    IF doesSearchMatchOnlyOption(s) THEN ClickOptionRef(s, 0, apply)
    ELSE IF ~s.hasOnCreateOption THEN s
    ELSE IF getSelectedOptionForSearchValue(s.searchValue, s.selectedOptions) THEN s
    ELSE LET isCustomInput == ~hasActiveOption(s) /\ Len(s.matchingOptions) = 0
         IN IF isCustomInput \/ doesSearchMatchOnlyOption(s)
            THEN onCreateOption(s, s.searchValue, flattenOptionGroups(s.options), apply)
            ELSE s

\* the check for an already selected option left out
onKeyDownEnter_NoSelectedCheck(s, apply) ==
    IF doesSearchMatchOnlyOption(s) THEN ClickOptionRef(s, 0, apply)
    ELSE IF ~s.hasOnCreateOption THEN s
    ELSE LET isCustomInput == ~hasActiveOption(s) /\ Len(s.matchingOptions) = 0
         IN IF isCustomInput \/ doesSearchMatchOnlyOption(s)
            THEN LET created == onCreateOption(s, s.searchValue,
                                               flattenOptionGroups(s.options), apply)
                 IN [created EXCEPT !.searchValue = <<>>, !.dirty = TRUE]
            ELSE s

\* the check for a missing onCreateOption left out
onKeyDownEnter_NoHandlerCheck(s, apply) ==
    IF doesSearchMatchOnlyOption(s) THEN ClickOptionRef(s, 0, apply)
    ELSE IF getSelectedOptionForSearchValue(s.searchValue, s.selectedOptions) THEN s
    ELSE LET isCustomInput == ~hasActiveOption(s) /\ Len(s.matchingOptions) = 0
         IN IF isCustomInput \/ doesSearchMatchOnlyOption(s)
            THEN LET created == onCreateOption(s, s.searchValue,
                                               flattenOptionGroups(s.options), apply)
                 IN [created EXCEPT !.searchValue = <<>>, !.dirty = TRUE]
            ELSE s

onKeyDownEnter(s, apply) ==
    IF doesSearchMatchOnlyOption(s) THEN ClickOptionRef(s, 0, apply)
    ELSE IF ~s.hasOnCreateOption THEN s
    ELSE IF getSelectedOptionForSearchValue(s.searchValue, s.selectedOptions) THEN s
    ELSE LET isCustomInput == ~hasActiveOption(s) /\ Len(s.matchingOptions) = 0
         IN IF isCustomInput \/ doesSearchMatchOnlyOption(s)
            THEN LET created == onCreateOption(s, s.searchValue,
                                               flattenOptionGroups(s.options), apply)
                 IN [created EXCEPT !.searchValue = <<>>, !.dirty = TRUE]
            ELSE s

\* tabbableItems: what tabbable(document) returns at this event
onKeyDown(s, key, apply, tabbableItems) ==
    CASE key = "Up" -> incrementActiveOptionIndex(s, -1)
      [] key = "Down" -> incrementActiveOptionIndex(s, 1)
      [] key = "Backspace" -> onKeyDownBackspace(s, apply)
      [] key = "Escape" -> onKeyDownEscape(s)
      [] key = "Enter" -> onKeyDownEnter(s, apply)
      [] key = "ShiftTab" -> tabAway(s, -1, tabbableItems)
      [] key = "Tab" -> tabAway(s, 1, tabbableItems)
      [] OTHER -> s

onComboBoxClick(s) == Focus(s, SearchInput)

\* hasOnSearchChange: whether props.onSearchChange is supplied at this event
onSearchChange(s, text, hasOnSearchChange) ==
    LET told == IF hasOnSearchChange THEN Notify(s, "onSearchChange", <<>>) ELSE s
    IN [told EXCEPT !.searchValue = text, !.dirty = TRUE]

\* the option list (not among the sources) calls optionRef(index, node) for the
\* node of each matching option, in order, on every render
optionRef(s) ==
    [s EXCEPT !.optionRefs = [k \in 1..Len(s.matchingOptions) |-> OptionNode(s.matchingOptions[k])]]

\* the cache is recomputed but the active option is kept when nothing matches
componentWillUpdate_KeepsActive(s) ==
    LET matched == getMatchingOptions(s.options, s.selectedOptions, s.searchValue)
    IN [s EXCEPT !.optionRefs = <<>>,
                 !.matchingOptions = matched.matchingOptions,
                 !.optionToGroupMap = matched.optionToGroupMap]

\* an update that clears the refs but keeps the cache of the previous render
componentWillUpdate_StaleCache(s) ==
    IF Len(s.matchingOptions) = 0
    THEN clearActiveOption([s EXCEPT !.optionRefs = <<>>])
    ELSE [s EXCEPT !.optionRefs = <<>>]

\* searchValue !== this.props.searchValue holds on every update (no caller
\* passes a searchValue prop), so the refs are cleared on every update
componentWillUpdate(s) ==
    Only({ IF Len(matched.matchingOptions) = 0
           THEN clearActiveOption([s EXCEPT !.optionRefs = <<>>,
                                            !.matchingOptions = matched.matchingOptions,
                                            !.optionToGroupMap = matched.optionToGroupMap])
           ELSE [s EXCEPT !.optionRefs = <<>>,
                          !.matchingOptions = matched.matchingOptions,
                          !.optionToGroupMap = matched.optionToGroupMap] :
             matched \in {getMatchingOptions(s.options, s.selectedOptions, s.searchValue)} })

\* render: the nodes of options no longer matching leave the document, and a
\* removed node that had focus loses it without a blur event reaching React
Render(s) ==
    Only({ IF ComboBoxContains(registered, registered.activeElement)
              \/ registered.activeElement.kind = "outside"
           THEN registered
           ELSE [registered EXCEPT !.activeElement = Outside] :
             registered \in {optionRef(s)} })

componentDidUpdate(s) == focusActiveOption(s)

\* comboBoxRef(null), searchInputRef(null); optionRef ignores a null node
Unmounted(s) ==
    [s EXCEPT !.mounted = FALSE,
              !.activeElement = IF ComboBoxContains(s, @) THEN Outside ELSE @]

\* an error thrown by a lifecycle method unmounts the tree (React 16)
\* (each step's result is bound as a value before the next step reads it)
Update(s) ==
    Only({ IF done.threw # NoError THEN Unmounted(done) ELSE done :
             done \in { componentDidUpdate(rendered) :
                          rendered \in { Render(cached) :
                                           cached \in { componentWillUpdate(next) :
                                                          next \in {s} } } } })

Flush(s) == IF s.dirty THEN Update(s) ELSE s

\* the list is closed but the active option is kept
closeList_KeepsActive(s) == [s EXCEPT !.isListOpen = FALSE, !.dirty = TRUE]

\* the active option is cleared but the list is left open
closeList_KeepsOpen(s) == clearActiveOption(s)

closeList(s) == [clearActiveOption(s) EXCEPT !.isListOpen = FALSE, !.dirty = TRUE]

\* the list is closed on the strength of the blur, wherever focus is by now
BlurCheck_TrustsBlur(s) ==
    LET ran == [s EXCEPT !.pendingBlurChecks = @ - 1]
    IN IF ~ran.mounted THEN [ran EXCEPT !.threw = "comboBox.contains"]
       ELSE closeList(ran)

\* the callback onComboBoxBlur hands to requestAnimationFrame
BlurCheck(s) ==
    LET ran == [s EXCEPT !.pendingBlurChecks = @ - 1]
    IN IF ~ran.mounted THEN [ran EXCEPT !.threw = "comboBox.contains"]   \* null.contains(...)
       ELSE IF ~ComboBoxContains(ran, ran.activeElement) THEN closeList(ran)
       ELSE ran

----------------------------------------------------------------------------
(* The state machine *)

Snapshot ==
    [options |-> options, selectedOptions |-> selectedOptions,
     searchValue |-> searchValue, isListOpen |-> isListOpen,
     matchingOptions |-> matchingOptions, optionToGroupMap |-> optionToGroupMap,
     activeOptionIndex |-> activeOptionIndex, optionRefs |-> optionRefs,
     mounted |-> mounted, activeElement |-> activeElement,
     pendingBlurChecks |-> pendingBlurChecks]

\* History of an add followed at once by the removal of the added option, the
\* caller applying both requests: target is the option the step acts on.
TripAfter(s, name, target) ==
    IF s.calls # <<>> /\ s.calls[1].fn = "onChange" /\ s.selectedOptions = s.calls[1].args[1]
    THEN IF name \in {"OptionClick", "Enter"}
         THEN [stage |-> "added", selection |-> selectedOptions, option |-> target]
         ELSE IF name \in {"PillRemove", "Backspace"} /\ trip.stage = "added"
                 /\ trip.option = target
         THEN [trip EXCEPT !.stage = "removed"]
         ELSE NoTrip
    ELSE NoTrip

Commit(s, name, target) ==
    /\ s.pendingBlurChecks <= MaxPending
    /\ Len(s.selectedOptions) <= MaxSelected
    /\ options' = s.options
    /\ selectedOptions' = s.selectedOptions
    /\ hasOnCreateOption' = s.hasOnCreateOption
    /\ searchValue' = s.searchValue
    /\ isListOpen' = s.isListOpen
    /\ matchingOptions' = s.matchingOptions
    /\ optionToGroupMap' = s.optionToGroupMap
    /\ activeOptionIndex' = s.activeOptionIndex
    /\ optionRefs' = s.optionRefs
    /\ mounted' = s.mounted
    /\ activeElement' = s.activeElement
    /\ pendingBlurChecks' = s.pendingBlurChecks
    /\ ev' = name
    /\ before' = Snapshot
    /\ trip' = TripAfter(s, name, target)
    /\ calls' = s.calls
    /\ threw' = s.threw
    /\ acted' = target
    /\ tabbed' = s.tabbed

\* constructor and first render, the caller passing one of selections
InitWith(selections) ==
    /\ options \in Catalogs
    /\ selectedOptions \in selections
    /\ hasOnCreateOption \in BOOLEAN
    /\ searchValue = <<>>
    /\ isListOpen = FALSE
    /\ matchingOptions = getMatchingOptions(options, selectedOptions, <<>>).matchingOptions
    /\ optionToGroupMap = getMatchingOptions(options, selectedOptions, <<>>).optionToGroupMap
    /\ activeOptionIndex = Undefined
    /\ optionRefs = [k \in 1..Len(matchingOptions) |-> OptionNode(matchingOptions[k])]
    /\ mounted = TRUE
    /\ activeElement = Outside
    /\ pendingBlurChecks = 0
    /\ ev = "Init"
    /\ before = Snapshot
    /\ trip = NoTrip
    /\ calls = <<>>
    /\ threw = NoError
    /\ acted = NoOption
    /\ tabbed = NoTab

Init == InitWith({<<>>})

\* a caller that mounts the combo box with a selection of its own, which may
\* hold the same option object twice (props.selectedOptions is any array)
InitCaller == InitWith(CallerSelections)

\* the option Enter commits or Backspace removes, if any
KeyTarget(key) ==
    IF key = "Enter" /\ Len(matchingOptions) > 0 THEN matchingOptions[1]
    ELSE IF key = "Backspace" /\ Len(selectedOptions) > 0
    THEN selectedOptions[Len(selectedOptions)]
    ELSE NoOption

\* a key pressed while focus is inside the combo box
KeyDown ==
    /\ mounted
    /\ ComboBoxContains(Cur, activeElement)
    /\ \E key \in {"Up", "Down", "Backspace", "Escape", "Enter"}, apply \in BOOLEAN :
          Commit(Flush(onKeyDown(Cur, key, apply, <<>>)), key, KeyTarget(key))

\* Tab or Shift+Tab pressed while focus is inside the combo box
TabKey ==
    /\ mounted
    /\ ComboBoxContains(Cur, activeElement)
    /\ \E key \in {"Tab", "ShiftTab"}, tabbableItems \in TabbableLists :
          Commit(Flush(onKeyDown(Cur, key, FALSE, tabbableItems)), key, NoOption)

\* the user edits the text of the focused search input
SearchChange ==
    /\ mounted
    /\ activeElement = SearchInput
    /\ \E text \in SearchTexts \ {searchValue}, hasOnSearchChange \in BOOLEAN :
          Commit(Flush(onSearchChange(Cur, text, hasOnSearchChange)), "SearchChange", NoOption)

\* the user clicks into the input area
ComboBoxClick ==
    /\ mounted
    /\ activeElement # SearchInput
    /\ Commit(Flush(onComboBoxClick(Cur)), "ComboBoxClick", NoOption)

\* the user presses the mouse on an option of the open list, which takes focus
OptionFocus ==
    /\ mounted
    /\ isListOpen
    /\ \E i \in 1..Len(optionRefs) :
          /\ activeElement # optionRefs[i]
          /\ Commit(Flush(Focus(Cur, optionRefs[i])), "OptionFocus", NoOption)

\* the user clicks an option of the open list
OptionClick ==
    /\ mounted
    /\ isListOpen
    /\ \E i \in 0..(Len(optionRefs) - 1), apply \in BOOLEAN :
          Commit(Flush(ClickOptionRef(Cur, i, apply)), "OptionClick", matchingOptions[i + 1])

\* the user clicks the close button of a pill
PillRemove ==
    /\ mounted
    /\ \E i \in 1..Len(selectedOptions), apply \in BOOLEAN :
          Commit(Flush(onRemoveOption(Cur, selectedOptions[i], apply)), "PillRemove", selectedOptions[i])

\* the user moves focus to an element outside the combo box
FocusOutside ==
    /\ mounted
    /\ activeElement # Outside
    /\ Commit(Flush(Focus(Cur, Outside)), "FocusOutside", NoOption)

\* the caller renders the combo box again, with the same or another catalog
SetOptions ==
    /\ mounted
    /\ \E catalog \in Catalogs :
          Commit(Update([Cur EXCEPT !.options = catalog]), "SetOptions", NoOption)

\* a scheduled animation frame callback runs; its setState is not batched
RunBlurCheck ==
    /\ pendingBlurChecks > 0
    /\ ev' = "BlurCheck"
    /\ \E s \in {Flush(BlurCheck(Cur))} : Commit(s, "BlurCheck", NoOption)

\* the caller removes the combo box from the page
Unmount ==
    /\ mounted
    /\ Commit(Unmounted(Cur), "Unmount", NoOption)

Next ==
    \/ KeyDown
    \/ TabKey
    \/ SearchChange
    \/ ComboBoxClick
    \/ OptionFocus
    \/ OptionClick
    \/ PillRemove
    \/ FocusOutside
    \/ SetOptions
    \/ RunBlurCheck
    \/ Unmount

Spec == Init /\ [][Next]_vars

CallerSpec == InitCaller /\ [][Next]_vars

----------------------------------------------------------------------------
(* Properties *)

\* the only call the last step made to the caller
OnlyCall(fn, args) == calls = << [fn |-> fn, args |-> args] >>

Called(fn) == \E i \in 1..Len(calls) : calls[i].fn = fn

\* C1: in every reachable state activeOptionIndex is unset or an index of a
\* registered option node, and no request to focus the active option finds
\* the registry without a node at that index.
C1_ActiveIndexWithinRegistry ==
    /\ \/ activeOptionIndex = Undefined
       \/ (0 <= activeOptionIndex /\ activeOptionIndex < Len(optionRefs))
    /\ threw # "options[i].focus"

\* m is a subsequence of flat: an increasing choice of positions of flat spells m
IsSubsequence(m, flat) ==
    \E pos \in [1..Len(m) -> 1..Len(flat)] :
        /\ \A i \in 1..Len(m) : flat[pos[i]] = m[i]
        /\ \A i, j \in 1..Len(m) : i < j => pos[i] < pos[j]

\* C2: in every state the cached matchingOptions is a subsequence of the
\* flattened catalog in declared order, holds no selected option, and every
\* label in it contains the search text under case folding.
C2_MatchingOptionsSubset ==
    /\ IsSubsequence(matchingOptions, flattenOptionGroups(options))
    /\ \A i \in 1..Len(matchingOptions) :
          /\ \A j \in 1..Len(selectedOptions) : selectedOptions[j] # matchingOptions[i]
          /\ Contains(toLowerCase(matchingOptions[i].label), toLowerCase(searchValue))

\* a search text and a selection have both narrowed the cache to one option
C2_Witness ==
    /\ ev = "SearchChange"
    /\ searchValue # <<>>
    /\ Len(selectedOptions) > 0
    /\ Len(matchingOptions) = 1
    /\ Len(flattenOptionGroups(options)) > 2

\* C3: an option added to a selection S and removed by the next step, the
\* caller applying both requests, leaves the selection equal to S.
C3_AddThenRemoveRoundTrip ==
    trip.stage = "removed" => selectedOptions = trip.selection

\* the round trip has happened on a selection that already held an option
C3_Witness ==
    /\ trip.stage = "removed"
    /\ Len(trip.selection) > 0
    /\ selectedOptions = trip.selection

\* exactly one option matched before the last step and its label is the
\* search text under case folding
ExactLabelMatchBefore ==
    /\ Len(before.matchingOptions) = 1
    /\ toLowerCase(before.matchingOptions[1].label) = toLowerCase(before.searchValue)

CommitRequestBefore ==
    << Append(before.selectedOptions, before.matchingOptions[1]) >>

\* C4: Enter pressed while exactly one option matches and its label equals
\* the search text under case folding requests the selection extended by
\* that option and resets the search text.
C4_EnterCommitsExactLabelMatch ==
    (ev = "Enter" /\ ExactLabelMatchBefore)
        => (OnlyCall("onChange", CommitRequestBefore) /\ searchValue = <<>>)

\* C5: on an Enter press with exactly one match that equals the search text
\* the option is committed and onCreateOption is not invoked, also when
\* onCreateOption is supplied.
C5_CommitBeforeCreate ==
    (ev = "Enter" /\ ExactLabelMatchBefore)
        => /\ calls # <<>>
           /\ calls[1] = [fn |-> "onChange", args |-> CommitRequestBefore]
           /\ ~Called("onCreateOption")

\* C6: Enter with onCreateOption supplied, no active option, no matching
\* option and a search text that is not the label of a selected option calls
\* onCreateOption once with the search text and the flattened catalog, calls
\* nothing else, and resets the search text.
C6_EnterCreatesCustomOption ==
    (/\ ev = "Enter"
     /\ hasOnCreateOption
     /\ before.activeOptionIndex = Undefined
     /\ Len(before.matchingOptions) = 0
     /\ ~getSelectedOptionForSearchValue(before.searchValue, before.selectedOptions))
        => /\ OnlyCall("onCreateOption",
                       <<before.searchValue, flattenOptionGroups(before.options)>>)
           /\ searchValue = <<>>

\* a text matching nothing in a catalog of three options has been created
C6_Witness ==
    /\ ev = "Enter"
    /\ hasOnCreateOption
    /\ before.searchValue # <<>>
    /\ before.activeOptionIndex = Undefined
    /\ Len(before.matchingOptions) = 0
    /\ Len(flattenOptionGroups(before.options)) > 2
    /\ Called("onCreateOption")
    /\ searchValue = <<>>

IsSelectionWithout(next, selection, removed) ==
    /\ IsSubsequence(next, selection)
    /\ \A i \in 1..Len(next) : next[i] # removed
    /\ Len(next) = Len(selection) - Cardinality({i \in 1..Len(selection) : selection[i] = removed})

\* C8: Backspace requests the selection without its last option exactly when
\* the search text is empty and the selection is not; otherwise it requests
\* nothing.
C8_BackspaceRemovesLastPill ==
    ev = "Backspace" =>
        IF Len(before.searchValue) = 0 /\ Len(before.selectedOptions) > 0
        THEN /\ Len(calls) = 1
             /\ calls[1].fn = "onChange"
             /\ IsSelectionWithout(calls[1].args[1], before.selectedOptions,
                                   before.selectedOptions[Len(before.selectedOptions)])
        ELSE calls = <<>>

\* Backspace on two pills and an empty search text has asked for the first alone
C8_Witness ==
    /\ ev = "Backspace"
    /\ Len(before.selectedOptions) = 2
    /\ OnlyCall("onChange", << <<before.selectedOptions[1]>> >>)
    /\ selectedOptions = <<before.selectedOptions[1]>>

\* the deferred check that ran in the last step found focus outside the
\* mounted combo box
BlurCheckFoundFocusOutside ==
    /\ ev = "BlurCheck"
    /\ before.mounted
    /\ ~ComboBoxContains(before, before.activeElement)

C9_Closed == BlurCheckFoundFocusOutside => (~isListOpen /\ activeOptionIndex = Undefined)

BlurPendingFocusOutside == mounted /\ pendingBlurChecks > 0 /\ activeElement = Outside

\* C9: a deferred check that finds focus outside the combo box closes the
\* list and unsets the active index; and with the animation frame always
\* run, a pending check with focus outside leads to a closed list unless
\* focus comes back or the combo box is unmounted first.
C9_BlurClosesList ==
    /\ []C9_Closed
    /\ BlurPendingFocusOutside ~> (~isListOpen \/ ~mounted \/ activeElement # Outside)

\* an open list with an active option has been closed by the deferred check
C9_Witness ==
    /\ BlurCheckFoundFocusOutside
    /\ before.isListOpen
    /\ before.activeOptionIndex # Undefined
    /\ ~isListOpen
    /\ activeOptionIndex = Undefined

\* C10: a deferred check that runs after the combo box was unmounted raises
\* nothing and changes nothing.
C10_BlurCheckAfterUnmountIsNoOp ==
    (ev = "BlurCheck" /\ ~before.mounted)
        => /\ threw = NoError
           /\ isListOpen = before.isListOpen
           /\ activeOptionIndex = before.activeOptionIndex
           /\ searchValue = before.searchValue

\* the index Up (delta -1) or Down (delta 1) moves to from index i of n nodes
WrappedIndex(i, delta, n) ==
    IF delta < 0 /\ i = 0 THEN n - 1
    ELSE IF delta > 0 /\ i = n - 1 THEN 0
    ELSE i + delta

\* C11: with a match and an active option at index i of a registry of N nodes,
\* Up from 0 yields N-1, Down from N-1 yields 0, and any other move yields
\* i - 1 (Up) or i + 1 (Down).
C11_IncrementWraps ==
    (/\ ev \in {"Up", "Down"}
     /\ Len(before.matchingOptions) > 0
     /\ before.activeOptionIndex # Undefined)
        => activeOptionIndex = WrappedIndex(before.activeOptionIndex,
                                            IF ev = "Up" THEN -1 ELSE 1,
                                            Len(before.optionRefs))

\* Down from the last of three options has wrapped to the first
C11_Witness ==
    /\ ev = "Down"
    /\ Len(before.optionRefs) = 3
    /\ before.activeOptionIndex = 2
    /\ activeOptionIndex = 0
    /\ activeElement = optionRefs[1]

\* C12: in every state whose match list is empty (whatever update emptied
\* it, whatever the index was before) activeOptionIndex is unset; and Up or
\* Down pressed with an empty match list leaves it unset and moves no focus.
C12_EmptyMatchesClearActive ==
    /\ Len(matchingOptions) = 0 => activeOptionIndex = Undefined
    /\ (ev \in {"Up", "Down"} /\ Len(before.matchingOptions) = 0)
          => /\ activeOptionIndex = Undefined
             /\ activeElement = before.activeElement
             /\ pendingBlurChecks = before.pendingBlurChecks

\* a new catalog has emptied the match list while an option was active
C12_Witness ==
    /\ ev = "SetOptions"
    /\ mounted
    /\ before.activeOptionIndex # Undefined
    /\ Len(before.matchingOptions) > 0
    /\ Len(matchingOptions) = 0
    /\ activeOptionIndex = Undefined

\* the option that was active before the last step
ActiveOptionBefore == before.matchingOptions[before.activeOptionIndex + 1]

\* C13: when the option that was active before a step is no longer among the
\* matching options after it, activeOptionIndex is unset: it designates
\* neither another option nor a missing node.
C13_NoStaleActiveIndex ==
    (/\ before.activeOptionIndex # Undefined
     /\ before.activeOptionIndex < Len(before.matchingOptions)
     /\ \A k \in 1..Len(matchingOptions) : matchingOptions[k] # ActiveOptionBefore)
        => activeOptionIndex = Undefined

\* the last step called onRemoveOption (on the option acted)
RemoveRequested == ev = "PillRemove" \/ (ev = "Backspace" /\ calls # <<>>)

\* seq without the first element equal to x
WithoutFirst(seq, x) ==
    IF \E i \in 1..Len(seq) : seq[i] = x
    THEN LET k == CHOOSE i \in 1..Len(seq) : seq[i] = x /\ \A j \in 1..(i - 1) : seq[j] # x
         IN [i \in 1..(Len(seq) - 1) |-> IF i < k THEN seq[i] ELSE seq[i + 1]]
    ELSE seq

\* the removal left the search text alone and, no option being active for the
\* update that follows to refocus, left focus where it was
RemoveKeepsSearchAndFocus ==
    /\ searchValue = before.searchValue
    /\ before.activeOptionIndex = Undefined
          => /\ activeElement = before.activeElement
             /\ pendingBlurChecks = before.pendingBlurChecks

\* C14 as stated: removeOption requests the selection with only the first
\* element identical to the option removed, later occurrences kept, and
\* changes neither the search text nor focus.
C14_RemoveDropsFirstOnly ==
    RemoveRequested
        => /\ OnlyCall("onChange", << WithoutFirst(before.selectedOptions, acted) >>)
           /\ RemoveKeepsSearchAndFocus

\* C14 (amended): removeOption requests the selection with every element
\* identical to the option removed, the other elements kept in order, and
\* changes neither the search text nor focus.
C14_RemoveDropsEveryOccurrence ==
    RemoveRequested
        => /\ Len(calls) = 1
           /\ calls[1].fn = "onChange"
           /\ IsSelectionWithout(calls[1].args[1], before.selectedOptions, acted)
           /\ RemoveKeepsSearchAndFocus

\* the pill of an option selected twice has been removed: both are gone
C14_Witness ==
    /\ ev = "PillRemove"
    /\ before.selectedOptions = <<o3, o3>>
    /\ acted = o3
    /\ OnlyCall("onChange", << <<>> >>)
    /\ selectedOptions = <<>>

\* the last step called onAddOption (on the option acted): a click on an
\* option, or Enter taking the commit branch
AddRequested == ev = "OptionClick" \/ (ev = "Enter" /\ doesSearchMatchOnlyOption(before))

\* C15: addOption requests the selection with the option appended, the
\* selection itself changing only if the caller applies the request, and
\* leaves the search text empty, the active index unset and focus on the
\* search field.
C15_AddAppendsAndResets ==
    AddRequested
        => /\ OnlyCall("onChange", << Append(before.selectedOptions, acted) >>)
           /\ selectedOptions \in {before.selectedOptions,
                                   Append(before.selectedOptions, acted)}
           /\ searchValue = <<>>
           /\ activeOptionIndex = Undefined
           /\ activeElement = SearchInput

\* an option that was active and focused under a search text has been
\* clicked and appended to a selection of one
C15_Witness ==
    /\ ev = "OptionClick"
    /\ before.activeOptionIndex # Undefined
    /\ before.activeElement.kind = "option"
    /\ before.searchValue # <<>>
    /\ Len(before.selectedOptions) = 1
    /\ selectedOptions = Append(before.selectedOptions, acted)
    /\ searchValue = <<>>
    /\ activeOptionIndex = Undefined
    /\ activeElement = SearchInput

\* the last step closed the list
ListClosed == before.isListOpen /\ ~isListOpen

\* C16 as stated: after a step that commits an option, creates a custom
\* option or closes the list, the search text is empty and the active index
\* unset.
C16_ResetOnCommitCreateClose ==
    (AddRequested \/ Called("onCreateOption") \/ ListClosed)
        => (searchValue = <<>> /\ activeOptionIndex = Undefined)

\* C16 (amended): after a step that commits an option or creates a custom
\* option the search text is empty and the active index unset; after a step
\* that closes the list the active index is unset and the search text is
\* what it was.
C16_ResetOnCommitCreate ==
    /\ (AddRequested \/ Called("onCreateOption"))
          => (searchValue = <<>> /\ activeOptionIndex = Undefined)
    /\ ListClosed
          => (activeOptionIndex = Undefined /\ searchValue = before.searchValue)

\* the list has closed over a search text and an active option
C16_Witness ==
    /\ ListClosed
    /\ before.searchValue # <<>>
    /\ before.activeOptionIndex # Undefined
    /\ searchValue = before.searchValue
    /\ activeOptionIndex = Undefined

\* C17: a deferred check that finds focus inside the combo box (on the
\* search field or on an option), whatever happened between the blur and
\* the check, leaves the list, the active index, the search text and focus
\* as they were.
C17_BlurCheckRevalidates ==
    (ev = "BlurCheck" /\ ComboBoxContains(before, before.activeElement))
        => /\ isListOpen = before.isListOpen
           /\ activeOptionIndex = before.activeOptionIndex
           /\ searchValue = before.searchValue
           /\ activeElement = before.activeElement

\* the check scheduled by the blur of the search field ran with focus on an
\* option: the list stayed open and the option active
C17_Witness ==
    /\ ev = "BlurCheck"
    /\ before.activeElement.kind = "option"
    /\ ComboBoxContains(before, before.activeElement)
    /\ before.isListOpen
    /\ isListOpen
    /\ activeOptionIndex # Undefined

\* the 0-based position Tab (forward) or Shift+Tab moves to from position p
\* of a tabbable list of n elements
TabNeighbour(p, forward, n) == IF forward THEN (p + 1) % n ELSE (p - 1 + n) % n

\* C18: Tab and Shift+Tab focus the element after and before the search
\* field in the document's tabbable list, wrapping at either end; the target
\* is always an element of the list, and a target outside the combo box has
\* focus after the step.  (When the search field is the only tabbable element
\* the target is the search field itself, whose focus handler opens the list.)
C18_TabMovesToNeighbour ==
    ev \in {"Tab", "ShiftTab"}
        => /\ threw = NoError
           /\ tabbed.target =
                  tabbed.items[TabNeighbour(IndexOf(tabbed.items, SearchInput),
                                            ev = "Tab", Len(tabbed.items)) + 1]
           /\ tabbed.target # SearchInput => activeElement = tabbed.target

\* Tab pressed on an option, the search field last in the tabbable list, has
\* wrapped to the first element
C18_Witness ==
    /\ ev = "Tab"
    /\ before.activeElement.kind = "option"
    /\ tabbed.items = <<Outside, SearchInput>>
    /\ tabbed.target = Outside
    /\ activeElement = Outside

\* C19: a search edit that notifies onSearchChange passes it the next search
\* value, which is the search text after the step.  (The handler runs to
\* completion in one step: the call precedes the setState within it.)
C19_SearchChangeNotifiesWithValue ==
    (ev = "SearchChange" /\ Called("onSearchChange"))
        => OnlyCall("onSearchChange", <<searchValue>>)

C21_IncrementFromIdle ==
    (/\ ev \in {"Up", "Down"}
     /\ Len(before.matchingOptions) > 0
     /\ before.activeOptionIndex = Undefined)
        => /\ threw = NoError
           /\ activeOptionIndex = IF ev = "Up" THEN Len(before.optionRefs) - 1 ELSE 0
           /\ activeOptionIndex >= 0
           /\ activeOptionIndex < Len(optionRefs)
           /\ activeElement = optionRefs[activeOptionIndex + 1]

\* Up pressed in the search field over three options has activated and
\* focused the last
C21_Witness ==
    /\ ev = "Up"
    /\ before.activeOptionIndex = Undefined
    /\ before.activeElement = SearchInput
    /\ Len(before.optionRefs) = 3
    /\ activeOptionIndex = 2
    /\ activeElement = optionRefs[3]

FairSpec == Spec /\ WF_vars(RunBlurCheck)

====
